---- MODULE Spec2Model ----
(***************************************************************************)
(* Order engine of the BV Parfume backend: cart, checkout (create_order),  *)
(* order status updates and catalogue edits, as concurrent request         *)
(* handlers over one relational store.                                     *)
(*                                                                         *)
(* Every handler owns a database session (get_async_session).  What a      *)
(* session has written but not committed is kept in the request record;    *)
(* the variables items, cart and orders hold the committed rows, which is  *)
(* what every other request reads.  A handler that awaits the store        *)
(* between its SELECT and its COMMIT is split at those points.             *)
(***************************************************************************)
EXTENDS Integers, Sequences, FiniteSets, TLC

\* ------------------------------------------------------------------ bounds
InitStock == 2      \* stock of every seeded item (50 in init_database)
MaxOps    == 4      \* number of requests served in one behaviour
HistoryLimit == 2   \* rows of the history SELECT (limit(50) in websocket_chat)
MaxFrames == 5      \* handshakes and frames the chat endpoint receives

\* ---------------------------------------------------------------- domains
Items    == {"A", "B"}
Buyers   == {"u1", "u2"}
Actors   == {"u1", "s1", "adm"}
Reqs     == {"r1", "r2"}
Prices   == {1, 2}
Quantities  == {1, 2}       \* CartItemCreate.quantity of one request
StockValues == {0, 1}       \* stock_quantity a seller writes
OrderIds    == {1, 2}       \* order_id path parameter of a request
Addresses   == {"addr1", "addr2"}   \* free text of an order
NoReq    == "none"
Socks    == {1, 2}                  \* WebSocket connections, by arrival
ChatUsers == {"u1", "s1", "u3"}     \* rows of the users table
Inactive  == {"u3"}                 \* users whose is_active is False
Subjects  == ChatUsers \cup {"u0"}  \* "sub" of a signed token; u0 has no row
TokenTypes == {"access", "refresh"}  \* "type" of a signed token
Tokens   ==
  {[kind |-> k, sub |-> "-", type |-> "-"] : k \in {"missing", "malformed"}}
    \cup {[kind |-> "jwt", sub |-> u, type |-> t] : u \in Subjects, t \in TokenTypes}
Texts     == {"missing", "", " ", "hi", " hi "}   \* "text" of a payload
Receivers == {"missing", "u1", "s1"}             \* "receiver_id" of a payload
Frames    ==
  {[json |-> FALSE, text |-> "-", receiver_id |-> "-"]} \cup
  {[json |-> TRUE, text |-> t, receiver_id |-> rc] : t \in Texts, rc \in Receivers}
SendErrors == {"WebSocketDisconnect", "RuntimeError"}

\* app/models/user.py UserRole of the seeded users, and of a second seller
\* the admin created
Role == [u \in {"u1", "u2", "s1", "s2", "sup", "adm"} |->
           IF u = "adm" THEN "admin"
           ELSE IF u \in {"s1", "s2"} THEN "seller"
           ELSE IF u = "sup" THEN "support" ELSE "user"]

\* the callers of the seller and admin endpoints, one of every role and a
\* seller who owns no item
Staff == {"u1", "s1", "s2", "sup", "adm"}

\* item_id path parameter of a request: the seeded items and an id no row has
ItemIds == Items \cup {"Z"}

\* init_db.py: every seeded item belongs to the seller
Owner == [i \in Items |-> "s1"]

\* app/models/order.py OrderStatus
OrderStatus == {"pending", "paid", "shipped", "delivered", "cancelled"}

\* orders.py STATUS_TRANSITIONS
STATUS_TRANSITIONS ==
  [s \in OrderStatus |->
     CASE s = "pending"   -> {"paid", "cancelled"}
       [] s = "paid"      -> {"shipped", "cancelled"}
       [] s = "shipped"   -> {"delivered"}
       [] s = "delivered" -> {}
       [] s = "cancelled" -> {}]

VARIABLES items, cart, orders, req, writer, response, ops,
          connections, socks, messages, frames, wire

\* the rows and requests of the HTTP handlers; the chat registry, its
\* sockets and the persisted chat messages
shopVars == <<items, cart, orders, req, writer, response, ops>>
chatVars == <<connections, socks, messages, frames, wire>>
vars == <<shopVars, chatVars>>

\* ---------------------------------------------------------------- helpers
MaxId(S) == IF S = {} THEN 0 ELSE CHOOSE m \in S : \A x \in S : x <= m

RECURSIVE SortById(_)
\* rows of a SELECT without ORDER BY come back in primary-key order
SortById(S) ==
  IF S = {} THEN <<>>
  ELSE LET lo == CHOOSE c \in S : \A d \in S : c.id <= d.id
       IN <<lo>> \o SortById(S \ {lo})

RECURSIVE SumSeq(_)
SumSeq(s) == IF s = <<>> THEN 0 ELSE Head(s) + SumSeq(Tail(s))

\* a new request is served in the first free slot (slots are interchangeable)
FreeSlot(r) == req[r].pc = "idle" /\ (r = "r2" => req["r1"].pc # "idle")

\* an Item row the session has not loaded
NotLoaded == [stock_quantity |-> 0, price |-> 0, is_active |-> FALSE]

IdleReq == [pc |-> "idle", user |-> "-", cart_items |-> <<>>,
            loaded |-> [i \in Items |-> NotLoaded],
            order |-> [id |-> 0, order_number |-> 0, total_price |-> 0],
            order_id |-> 0, status |-> "-",
            data |-> [item_id |-> "-", quantity |-> 0]]

\* background_tasks.add_task(send_status_notification, order.id, status):
\* the response is out, the task has still to run
Scheduled(order_id, status) ==
  [IdleReq EXCEPT !.pc = "bg", !.order_id = order_id, !.status = status]

\* a WebSocket before its handshake is handled
NewSock == [state |-> "new", user_id |-> "-", item_id |-> "-",
            close_code |-> 0]

\* a JSON message the server puts on socket w
Sent(w, frame) == [to |-> w, frame |-> frame]

\* what the client is answered: the status code, the error detail (or the
\* kind of body on success) and the item an error detail names
Resp(code, detail, item) ==
  [status_code |-> code, detail |-> detail, item |-> item]

Init ==
  /\ items = [i \in Items |->
                [stock_quantity |-> InitStock,
                 price |-> IF i = "A" THEN 2 ELSE 1,
                 is_active |-> TRUE]]
  /\ cart = {}
  /\ orders = {}
  /\ req = [r \in Reqs |-> IdleReq]
  /\ writer = NoReq
  /\ response = Resp(0, "-", "-")
  /\ ops = 0
  /\ connections = {}
  /\ socks = [w \in Socks |-> NewSock]
  /\ messages = <<>>
  /\ frames = 0
  /\ wire = <<>>

\* ------------------------------------------------------- cart (cart.py)
\* add_to_cart: one SELECT for the item, one for the existing line, then a
\* single INSERT or UPDATE and the commit.
AddToCart(u, i, q) ==
  /\ ops < MaxOps
  /\ ops' = ops + 1
  /\ IF ~items[i].is_active
       THEN /\ response' = Resp(404, "item_not_found", "-")
            /\ UNCHANGED <<items, cart, orders, req, writer>>
     ELSE IF items[i].stock_quantity < q
       THEN /\ response' = Resp(400, "insufficient_stock_in_cart", "-")
            /\ UNCHANGED <<items, cart, orders, req, writer>>
     ELSE
       /\ writer = NoReq
       /\ LET existing == {c \in cart : c.user_id = u /\ c.item_id = i}
          IN IF existing # {}
               THEN LET ci == CHOOSE c \in existing : TRUE
                    IN cart' = (cart \ {ci}) \cup
                                 {[ci EXCEPT !.quantity = ci.quantity + q]}
               ELSE cart' = cart \cup
                      {[id |-> MaxId({c.id : c \in cart}) + 1, user_id |-> u,
                        item_id |-> i, quantity |-> q]}
       /\ response' = Resp(201, "cart_item", "-")
       /\ UNCHANGED <<items, orders, req, writer>>
  /\ UNCHANGED chatVars

\* add_to_cart as it runs next to other requests: the SELECTs and the
\* checks up to the lookup of the existing line ...
AddToCartRead(r, u, i, q) ==
  /\ FreeSlot(r)
  /\ ops < MaxOps
  /\ ops' = ops + 1
  /\ LET existing == {c \in cart : c.user_id = u /\ c.item_id = i}
     IN IF ~items[i].is_active
          THEN /\ response' = Resp(404, "item_not_found", "-")
               /\ UNCHANGED req
        ELSE IF items[i].stock_quantity < q
          THEN /\ response' = Resp(400, "insufficient_stock_in_cart", "-")
               /\ UNCHANGED req
        ELSE IF Cardinality(existing) > 1
          \* scalar_one_or_none raises MultipleResultsFound
          THEN /\ response' = Resp(500, "internal_error", "-")
               /\ UNCHANGED req
        ELSE /\ req' = [req EXCEPT ![r] =
                          [IdleReq EXCEPT !.pc = "ac_checked", !.user = u,
                             !.data = [item_id |-> i, quantity |-> q],
                             !.cart_items = SortById(existing)]]
             /\ UNCHANGED response
  /\ UNCHANGED <<items, cart, orders, writer>>
  /\ UNCHANGED chatVars

\* ... and "cart_item.quantity += data.quantity" on the loaded line or the
\* INSERT of a new one, with the commit
AddToCartCommit(r) ==
  /\ req[r].pc = "ac_checked"
  /\ writer = NoReq
  /\ IF req[r].cart_items # <<>>
       THEN LET ci == req[r].cart_items[1]
            IN IF ci \in cart
                 THEN /\ cart' = (cart \ {ci}) \cup
                         {[ci EXCEPT !.quantity = ci.quantity + req[r].data.quantity]}
                      /\ response' = Resp(201, "cart_item", "-")
                 \* UPDATE ... WHERE id = ? AND the row is gone or changed
                 ELSE IF \E c \in cart : c.id = ci.id
                   THEN /\ cart' = {IF c.id = ci.id
                                      THEN [c EXCEPT !.quantity =
                                              ci.quantity + req[r].data.quantity]
                                      ELSE c : c \in cart}
                        /\ response' = Resp(201, "cart_item", "-")
                   ELSE /\ response' = Resp(500, "internal_error", "-")
                        /\ UNCHANGED cart
       ELSE /\ cart' = cart \cup
                  {[id |-> MaxId({c.id : c \in cart}) + 1,
                    user_id |-> req[r].user,
                    item_id |-> req[r].data.item_id,
                    quantity |-> req[r].data.quantity]}
            /\ response' = Resp(201, "cart_item", "-")
  /\ req' = [req EXCEPT ![r] = IdleReq]
  /\ UNCHANGED <<items, orders, writer, ops>>
  /\ UNCHANGED chatVars

\* ------------------------------------------- create_order (orders.py)
\* rows of the user's cart, each joined with its item
CartItems(u) ==
  LET rows == SortById({c \in cart : c.user_id = u})
  IN [k \in 1..Len(rows) |->
        [id |-> rows[k].id, item_id |-> rows[k].item_id,
         quantity |-> rows[k].quantity]]

\* the Item objects the session holds after the SELECT: one per item id
\* that a row of the cart joins
Loaded(cart_items) ==
  [i \in Items |->
     IF \E k \in 1..Len(cart_items) : cart_items[k].item_id = i
       THEN [stock_quantity |-> items[i].stock_quantity,
             price |-> items[i].price,
             is_active |-> items[i].is_active]
       ELSE NotLoaded]

\* the empty check left out
CartIsEmpty_Never(cart_items) == FALSE

\* "if not cart_items"
CartIsEmpty(cart_items) == cart_items = <<>>

\* a stock check that stops after the first cart line
Understocked_FirstOnly(cart_items, loaded) ==
  {k \in 1..Len(cart_items) :
     /\ k = 1
     /\ loaded[cart_items[k].item_id].stock_quantity < cart_items[k].quantity}

\* positions of the cart lines that fail "ci.item.stock_quantity < ci.quantity"
Understocked(cart_items, loaded) ==
  {k \in 1..Len(cart_items) :
     loaded[cart_items[k].item_id].stock_quantity < cart_items[k].quantity}

\* the line at which the checking loop raises
FirstUnderstocked(cart_items, loaded) ==
  cart_items[CHOOSE k \in Understocked(cart_items, loaded) :
               \A j \in Understocked(cart_items, loaded) : k <= j].item_id

\* total = sum(ci.item.price * ci.quantity for ci in cart_items)
Total(cart_items, loaded) ==
  SumSeq([k \in 1..Len(cart_items) |->
            loaded[cart_items[k].item_id].price * cart_items[k].quantity])

\* the line total stored where the unit price belongs
OrderLines_LineTotal(cart_items, loaded) ==
  [k \in 1..Len(cart_items) |->
     [item_id |-> cart_items[k].item_id,
      quantity |-> cart_items[k].quantity,
      price_at_purchase |->
        loaded[cart_items[k].item_id].price * cart_items[k].quantity]]

\* the OrderItem rows added in the loop
OrderLines(cart_items, loaded) ==
  [k \in 1..Len(cart_items) |->
     [item_id |-> cart_items[k].item_id,
      quantity |-> cart_items[k].quantity,
      price_at_purchase |-> loaded[cart_items[k].item_id].price]]

RECURSIVE Decrement(_, _)
\* "ci.item.stock_quantity -= ci.quantity" over the loop, on the loaded objects
Decrement(loaded, cart_items) ==
  IF cart_items = <<>> THEN loaded
  ELSE LET ci == Head(cart_items)
       IN Decrement([loaded EXCEPT ![ci.item_id].stock_quantity = @ - ci.quantity],
                    Tail(cart_items))

\* a flush that commits the order row on its own
FlushVisible_Autocommit(os, o) == os \cup {o}

\* what other sessions see of the order row after session.flush(): nothing,
\* the INSERT is inside the still open transaction
FlushVisible(os, o) == os

\* order_number = f"BVP-{date}-{uuid4().hex[:8]}": an opaque value, either
\* new (numbers are interchangeable, the next unused one stands for all)
\* or equal to the number of an existing order
OrderNumbers ==
  LET used == {o.order_number : o \in orders}
  IN used \cup {MaxId(used) + 1}

\* the body of a create_order request: shipping_address, notes (None)
OrderCreate == [shipping_address |-> "addr1", notes |-> "none"]

\* SELECT cart, the empty check, the stock check, the total
CreateOrderRead(r, u) ==
  /\ FreeSlot(r)
  /\ ops < MaxOps
  /\ ops' = ops + 1
  /\ LET cart_items == CartItems(u)
         loaded == Loaded(cart_items)
     IN IF CartIsEmpty(cart_items)
          THEN /\ response' = Resp(400, "empty_cart", "-")
               /\ UNCHANGED req
        ELSE IF Understocked(cart_items, loaded) # {}
          THEN /\ response' = Resp(400, "insufficient_stock",
                                   FirstUnderstocked(cart_items, loaded))
               /\ UNCHANGED req
        ELSE /\ req' = [req EXCEPT ![r] =
                          [IdleReq EXCEPT !.pc = "co_checked", !.user = u,
                             !.cart_items = cart_items, !.loaded = loaded,
                             !.order.total_price = Total(cart_items, loaded)]]
             /\ UNCHANGED response
  /\ UNCHANGED <<items, cart, orders, writer>>
  /\ UNCHANGED chatVars

\* the column accepts every value
Duplicate_NoConstraint(os, n) == FALSE

\* order_number = Column(String(50), unique=True): the INSERT of a value an
\* order already has raises IntegrityError
Duplicate(os, n) == \E o \in os : o.order_number = n

\* session.add(order); await session.flush(): the INSERT takes the write
\* lock of the store and fails on a duplicate order_number
CreateOrderFlush(r, n) ==
  /\ req[r].pc = "co_checked"
  /\ writer = NoReq
  /\ IF Duplicate(orders, n)
       THEN /\ req' = [req EXCEPT ![r] = IdleReq]
            /\ response' = Resp(500, "integrity_error", "-")
            /\ UNCHANGED <<orders, writer>>
       ELSE LET o == [id |-> MaxId({x.id : x \in orders}) + 1,
                      order_number |-> n,
                      total_price |-> req[r].order.total_price]
            IN /\ req' = [req EXCEPT ![r].pc = "co_flushed", ![r].order = o]
               /\ writer' = r
               /\ orders' = FlushVisible(orders,
                               [id |-> o.id, order_number |-> n,
                                user_id |-> req[r].user, status |-> "pending",
                                total_price |-> o.total_price,
                                shipping_address |-> OrderCreate.shipping_address,
                                notes |-> OrderCreate.notes,
                                items |-> <<>>])
               /\ UNCHANGED response
  /\ UNCHANGED <<items, cart, ops>>
  /\ UNCHANGED chatVars

\* the loop over cart_items and session.commit(): INSERT order_items,
\* UPDATE items SET stock_quantity, DELETE cart_items, COMMIT
CreateOrderCommit(r) ==
  /\ req[r].pc = "co_flushed"
  /\ writer = r
  /\ LET cart_items == req[r].cart_items
         after == Decrement(req[r].loaded, cart_items)
         bought == {cart_items[k].item_id : k \in 1..Len(cart_items)}
         ids == {cart_items[k].id : k \in 1..Len(cart_items)}
     IN /\ orders' = orders \cup
                       {[id |-> req[r].order.id,
                         order_number |-> req[r].order.order_number,
                         user_id |-> req[r].user,
                         status |-> "pending",
                         total_price |-> req[r].order.total_price,
                         shipping_address |-> OrderCreate.shipping_address,
                         notes |-> OrderCreate.notes,
                         items |-> OrderLines(cart_items, req[r].loaded)]}
        /\ items' = [i \in Items |->
                       IF i \in bought
                         THEN [items[i] EXCEPT
                                 !.stock_quantity = after[i].stock_quantity]
                         ELSE items[i]]
        /\ cart' = {c \in cart : c.id \notin ids}
  /\ writer' = NoReq
  /\ req' = [req EXCEPT ![r] = Scheduled(req[r].order.id, "pending")]
  /\ response' = Resp(201, "order", "-")
  /\ UNCHANGED ops
  /\ UNCHANGED chatVars

\* get_async_session: an exception raised inside the handler rolls the
\* session back; nothing the session wrote reaches the committed rows
Rollback(r) ==
  /\ req[r].pc \notin {"idle", "bg"}
  /\ req' = [req EXCEPT ![r] = IdleReq]
  /\ writer' = IF writer = r THEN NoReq ELSE writer
  /\ response' = Resp(500, "internal_error", "-")
  /\ UNCHANGED <<items, cart, orders, ops>>
  /\ UNCHANGED chatVars

\* ----------------------------- send_status_notification (orders.py)
\* the task prints the notification, or raises
Outcomes == {"printed", "raises"}

\* the rollback undoes the rows the request committed
RollbackAfterCommit_Undo(rows, r) == {o \in rows : o.id # req[r].order_id}

\* session.rollback() once session.commit() has returned: the committed
\* rows stay as they are
RollbackAfterCommit(rows, r) == rows

\* the task runs after the response was sent; an exception it raises reaches
\* get_async_session, whose handler rolls the session back
SendStatusNotification(r, outcome) ==
  /\ req[r].pc = "bg"
  /\ orders' = IF outcome = "raises"
                 THEN RollbackAfterCommit(orders, r) ELSE orders
  /\ req' = [req EXCEPT ![r] = IdleReq]
  /\ UNCHANGED <<items, cart, writer, response, ops>>
  /\ UNCHANGED chatVars

\* ------------------------------------------ authorization (core/deps.py)
\* HTTPException(status_code=403, detail="Not enough permissions")
Forbidden == "403"

\* every role but the plain user passes, whatever allowed_roles is
RoleChecker_AnyStaff(u, allowed_roles) ==
  IF Role[u] # "user" THEN u ELSE Forbidden

\* RoleChecker.__call__: raises 403 when the user's role is not in
\* allowed_roles, returns current_user otherwise
RoleChecker(u, allowed_roles) ==
  IF Role[u] \notin allowed_roles THEN Forbidden ELSE u

\* the role lists of get_current_seller_user / get_current_admin_user
SellerRoles == {"seller", "admin"}
AdminRoles  == {"admin"}

get_current_seller_user(u) == RoleChecker(u, SellerRoles)
get_current_admin_user(u)  == RoleChecker(u, AdminRoles)

\* ------------------------------------ update_order_status (orders.py)
OrderById(oid) == CHOOSE o \in orders : o.id = oid

\* the table looked up by the requested status instead of the current one
TransitionAllowed_Reversed(from, to) == from \in STATUS_TRANSITIONS[to]

\* "data.status not in allowed"
TransitionAllowed(from, to) == to \in STATUS_TRANSITIONS[from]

\* the dependency, the SELECT and the transition check
UpdateStatusRead(r, actor, oid, to) ==
  /\ FreeSlot(r)
  /\ ops < MaxOps
  /\ ops' = ops + 1
  /\ IF get_current_seller_user(actor) = Forbidden
       THEN /\ response' = Resp(403, "not_enough_permissions", "-")
            /\ UNCHANGED req
     ELSE IF ~\E o \in orders : o.id = oid
       THEN /\ response' = Resp(404, "order_not_found", "-")
            /\ UNCHANGED req
     ELSE IF ~TransitionAllowed(OrderById(oid).status, to)
       THEN /\ response' = Resp(400, "illegal_transition", "-")
            /\ UNCHANGED req
     ELSE /\ req' = [req EXCEPT ![r] =
                       [IdleReq EXCEPT !.pc = "us_checked",
                                       !.user = get_current_seller_user(actor),
                                       !.order_id = oid, !.status = to]]
          /\ UNCHANGED response
  /\ UNCHANGED <<items, cart, orders, writer>>
  /\ UNCHANGED chatVars

\* the assignment also empties the order's lines
SetStatus_DropLines(order, status) ==
  [order EXCEPT !.status = status, !.items = <<>>]

\* order.status = data.status
SetStatus(order, status) == [order EXCEPT !.status = status]

\* order.status = data.status; await session.commit()
UpdateStatusCommit(r) ==
  /\ req[r].pc = "us_checked"
  /\ writer = NoReq
  /\ orders' = {IF o.id = req[r].order_id
                  THEN SetStatus(o, req[r].status) ELSE o : o \in orders}
  /\ req' = [req EXCEPT ![r] = Scheduled(req[r].order_id, req[r].status)]
  /\ response' = Resp(200, "order", "-")
  /\ UNCHANGED <<items, cart, writer, ops>>
  /\ UNCHANGED chatVars

\* ------------------------------------------- admin update_order (admin.py)
\* AdminOrderUpdate: status, shipping_address, notes, each optional
AdminOrderUpdate ==
  {<<"status", st>> : st \in OrderStatus} \cup
  {<<"shipping_address", a>> : a \in Addresses} \cup
  {<<"notes", a>> : a \in Addresses}

\* for field, value in data.model_dump(exclude_unset=True).items(): setattr
SetOrderAttr(order, data) ==
  CASE data[1] = "status"           -> [order EXCEPT !.status = data[2]]
    [] data[1] = "shipping_address" -> [order EXCEPT !.shipping_address = data[2]]
    [] data[1] = "notes"            -> [order EXCEPT !.notes = data[2]]

\* update_order: SELECT, 404, the setattr loop, commit
AdminUpdateOrder(actor, oid, data) ==
  /\ ops < MaxOps
  /\ ops' = ops + 1
  /\ IF get_current_admin_user(actor) = Forbidden
       THEN /\ response' = Resp(403, "not_enough_permissions", "-")
            /\ UNCHANGED orders
     ELSE IF ~\E o \in orders : o.id = oid
       THEN /\ response' = Resp(404, "order_not_found", "-")
            /\ UNCHANGED orders
     ELSE /\ writer = NoReq
          /\ orders' = {IF o.id = oid THEN SetOrderAttr(o, data) ELSE o
                          : o \in orders}
          /\ response' = Resp(200, "order", "-")
  /\ UNCHANGED <<items, cart, req, writer>>
  /\ UNCHANGED chatVars

\* ----------------------------------------------------- items (items.py)
\* values the request schemas admit for one field
\* ItemUpdate: price gt 0, stock_quantity ge 0, is_active bool
ItemUpdate ==
  {<<"price", p>> : p \in Prices} \cup
  {<<"stock_quantity", n>> : n \in StockValues} \cup
  {<<"is_active", b>> : b \in BOOLEAN}

\* AdminItemUpdate: no bound on price or stock_quantity
AdminItemUpdate ==
  {<<"price", p>> : p \in Prices} \cup
  {<<"stock_quantity", n>> : n \in StockValues \cup {-1}} \cup
  {<<"is_active", b>> : b \in BOOLEAN}

\* for field, value in data.model_dump(exclude_unset=True).items(): setattr
SetAttr(item, data) ==
  CASE data[1] = "price"          -> [item EXCEPT !.price = data[2]]
    [] data[1] = "stock_quantity" -> [item EXCEPT !.stock_quantity = data[2]]
    [] data[1] = "is_active"      -> [item EXCEPT !.is_active = data[2]]

\* every seller may edit every item
MayEdit_AnySeller(actor, i) == Role[actor] \in SellerRoles

\* "item.owner_id != current_user.id and current_user.role.value != 'admin'"
\* negated: owner or admin
MayEdit(actor, i) == Owner[i] = actor \/ Role[actor] = "admin"

\* update_item: the dependency, the SELECT, 404, the owner check, the
\* setattr loop, commit
UpdateItem(actor, i, data) ==
  /\ ops < MaxOps
  /\ ops' = ops + 1
  /\ IF get_current_seller_user(actor) = Forbidden
       THEN /\ response' = Resp(403, "not_enough_permissions", "-")
            /\ UNCHANGED items
     ELSE IF i \notin Items
       THEN /\ response' = Resp(404, "item_not_found", "-")
            /\ UNCHANGED items
     ELSE IF ~MayEdit(actor, i)
       THEN /\ response' = Resp(403, "no_rights", "-")
            /\ UNCHANGED items
       ELSE /\ writer = NoReq
            /\ items' = [items EXCEPT ![i] = SetAttr(@, data)]
            /\ response' = Resp(200, "item", "-")
  /\ UNCHANGED <<cart, orders, req, writer>>
  /\ UNCHANGED chatVars

\* delete_item: the same checks, then the soft delete
DeleteItem(actor, i) ==
  /\ ops < MaxOps
  /\ ops' = ops + 1
  /\ IF get_current_seller_user(actor) = Forbidden
       THEN /\ response' = Resp(403, "not_enough_permissions", "-")
            /\ UNCHANGED items
     ELSE IF i \notin Items
       THEN /\ response' = Resp(404, "item_not_found", "-")
            /\ UNCHANGED items
     ELSE IF ~MayEdit(actor, i)
       THEN /\ response' = Resp(403, "no_rights", "-")
            /\ UNCHANGED items
       ELSE /\ writer = NoReq
            /\ items' = [items EXCEPT ![i].is_active = FALSE]
            /\ response' = Resp(204, "-", "-")
  /\ UNCHANGED <<cart, orders, req, writer>>
  /\ UNCHANGED chatVars

\* admin.py update_item
AdminUpdateItem(actor, i, data) ==
  /\ ops < MaxOps
  /\ ops' = ops + 1
  /\ IF get_current_admin_user(actor) = Forbidden
       THEN /\ response' = Resp(403, "not_enough_permissions", "-")
            /\ UNCHANGED items
       ELSE /\ writer = NoReq
            /\ items' = [items EXCEPT ![i] = SetAttr(@, data)]
            /\ response' = Resp(200, "item", "-")
  /\ UNCHANGED <<cart, orders, req, writer>>
  /\ UNCHANGED chatVars

\* ------------------------------------------------ chat (websocket.py)
\* decode_token: the claims of a signed token, None otherwise
NoPayload == [sub |-> "None", type |-> "None"]

decode_token(token) ==
  IF token.kind = "jwt" THEN [sub |-> token.sub, type |-> token.type]
  ELSE NoPayload

\* HTTPException(status_code=401)
Unauthorized == "401"

\* deps.py get_current_user: the bearer token must decode to an access
\* token whose sub is the id of an active user
get_current_user(token) ==
  LET payload == decode_token(token)
  IN IF token.kind = "missing" THEN Unauthorized
     ELSE IF payload = NoPayload \/ payload.type # "access" THEN Unauthorized
     ELSE IF payload.sub \notin ChatUsers \/ payload.sub \in Inactive
       THEN Unauthorized
     ELSE payload.sub

\* self.connections[item_id][user_id] = websocket, the registry kept as the
\* set of its (item, user, socket) entries; the prior entry of the key
\* goes and the sockets left of it stay as they are
Connect_KeepPrior(conns, w, user_id, item_id) ==
  conns \cup {[item |-> item_id, user |-> user_id, ws |-> w]}

\* ConnectionManager.connect, after websocket.accept()
Connect(conns, w, user_id, item_id) ==
  {b \in conns : ~(b.item = item_id /\ b.user = user_id)}
    \cup {[item |-> item_id, user |-> user_id, ws |-> w]}

\* ConnectionManager.disconnect: self.connections[item_id].pop(user_id, None)
Disconnect(conns, user_id, item_id) ==
  {b \in conns : ~(b.item = item_id /\ b.user = user_id)}

\* the user's handles of every channel
Bound_AnyChannel(conns, user_id, item_id) ==
  {b.ws : b \in {c \in conns : c.user = user_id}}

\* the handles send_to_user finds under [item_id][user_id]
Bound(conns, user_id, item_id) ==
  {b.ws : b \in {c \in conns : c.item = item_id /\ c.user = user_id}}

\* str.strip() on the texts of the model
Strip_Identity(t) == t

\* str.strip()
Strip(t) ==
  CASE t = " "    -> ""
    [] t = " hi " -> "hi"
    [] OTHER      -> t

\* text = data.get("text", "").strip()
TextOf(frame) == Strip(IF frame.text = "missing" THEN "" ELSE frame.text)

\* "if not text or not receiver_id: continue"
Ignored(frame) == TextOf(frame) = "" \/ frame.receiver_id = "missing"

RECURSIVE SortDesc(_)
\* ORDER BY timestamp DESC
SortDesc(S) ==
  IF S = {} THEN <<>>
  ELSE LET hi == CHOOSE m \in S : \A n \in S : n.timestamp <= m.timestamp
       IN <<hi>> \o SortDesc(S \ {hi})

\* LIMIT n
Limit(rows, n) == SubSeq(rows, 1, IF Len(rows) < n THEN Len(rows) ELSE n)

\* reversed(rows)
Reversed(rows) == [k \in 1..Len(rows) |-> rows[Len(rows) + 1 - k]]

\* the fields of a message that go on the wire
Wire(m) ==
  [id |-> m.id, sender_id |-> m.sender_id, text |-> m.text,
   timestamp |-> m.timestamp]

\* the history left newest first
History_NewestFirst(item_id) ==
  LET rows == Limit(SortDesc({messages[k] : k \in {j \in 1..Len(messages) :
                                    messages[j].item_id = item_id}}),
                    HistoryLimit)
  IN [type |-> "history", messages |-> [k \in 1..Len(rows) |-> Wire(rows[k])]]

\* the history payload: SELECT ... ORDER BY timestamp DESC LIMIT 50, reversed
History(item_id) ==
  LET rows == Reversed(
                Limit(SortDesc({messages[k] : k \in {j \in 1..Len(messages) :
                                    messages[j].item_id = item_id}}),
                      HistoryLimit))
  IN [type |-> "history", messages |-> [k \in 1..Len(rows) |-> Wire(rows[k])]]

\* the handler ends; the server closes the socket and nothing of the
\* connection but its close code is left
Closed(sock, code) ==
  [NewSock EXCEPT !.state = "closed", !.close_code = code]

\* a new connection takes the lowest unused socket (sockets are
\* interchangeable)
NextSock(w) ==
  socks[w].state = "new" /\ \A v \in Socks : v < w => socks[v].state # "new"

\* the handshake up to the receive loop: token: str = Query(...),
\* decode_token, the user lookup, manager.connect, the history SELECT and
\* websocket.send_json({"type": "history", ...})
WsConnect(w, token, item_id) ==
  /\ NextSock(w)
  /\ frames < MaxFrames
  /\ frames' = frames + 1
  /\ LET payload == decode_token(token)
     IN IF token.kind = "missing"
          \* the required query parameter fails validation
          THEN /\ socks' = [socks EXCEPT ![w] = Closed(@, 1008)]
               /\ UNCHANGED connections
               /\ wire' = <<>>
        ELSE IF payload = NoPayload
          THEN /\ socks' = [socks EXCEPT ![w] = Closed(@, 4001)]
               /\ UNCHANGED connections
               /\ wire' = <<>>
        ELSE IF payload.sub \notin ChatUsers
          THEN /\ socks' = [socks EXCEPT ![w] = Closed(@, 4001)]
               /\ UNCHANGED connections
               /\ wire' = <<>>
        ELSE /\ socks' = [socks EXCEPT ![w] =
                            [@ EXCEPT !.state = "open",
                                      !.user_id = payload.sub,
                                      !.item_id = item_id]]
             /\ connections' = Connect(connections, w, payload.sub, item_id)
             /\ wire' = <<Sent(w, History(item_id))>>
  /\ UNCHANGED messages
  /\ UNCHANGED shopVars

\* the client goes away; the handler learns of it at its next receive
ClientGone(w) ==
  /\ socks[w].state = "open"
  /\ socks' = [socks EXCEPT ![w].state = "gone"]
  /\ wire' = <<>>
  /\ UNCHANGED <<connections, messages, frames>>
  /\ UNCHANGED shopVars

\* receive_json raises WebSocketDisconnect: manager.disconnect(user_id, item_id)
WsReceiveDisconnect(w) ==
  /\ socks[w].state = "gone"
  /\ connections' = Disconnect(connections, socks[w].user_id, socks[w].item_id)
  /\ socks' = [socks EXCEPT ![w] = Closed(@, 1000)]
  /\ wire' = <<>>
  /\ UNCHANGED <<messages, frames>>
  /\ UNCHANGED shopVars

\* the Message row of a payload: sender, receiver, channel, stripped text
NewMessage(w, frame) ==
  [id |-> Len(messages) + 1,
   sender_id |-> socks[w].user_id,
   receiver_id |-> frame.receiver_id,
   item_id |-> socks[w].item_id,
   text |-> TextOf(frame),
   timestamp |-> Len(messages) + 1]

\* message_data, the dict sent to the receiver and echoed to the sender
MessageData(msg, type) == [type |-> type] @@ Wire(msg)

\* what an exception out of a send does to the handler of socket w: the
\* except clause catches WebSocketDisconnect only
Raise(w, exc) ==
  /\ socks' = [socks EXCEPT ![w] = Closed(@, IF exc = "WebSocketDisconnect"
                                              THEN 1000 ELSE 1011)]
  /\ connections' = IF exc = "WebSocketDisconnect"
                      THEN Disconnect(connections, socks[w].user_id,
                                      socks[w].item_id)
                      ELSE connections
  /\ wire' = <<>>

\* one turn of the receive loop: receive_json, the payload check, the
\* Message INSERT and commit, manager.send_to_user to the receiver and the
\* "sent" echo.  A frame that is not JSON raises JSONDecodeError and a send
\* to a socket that is gone raises exc; neither is caught unless it is
\* WebSocketDisconnect.
WsReceive(w, frame, exc) ==
  /\ socks[w].state = "open"
  /\ frames < MaxFrames
  /\ frames' = frames + 1
  /\ IF ~frame.json
       THEN /\ socks' = [socks EXCEPT ![w] = Closed(@, 1011)]
            /\ wire' = <<>>
            /\ UNCHANGED <<connections, messages>>
     ELSE IF Ignored(frame)
       THEN /\ wire' = <<>>
            /\ UNCHANGED <<socks, connections, messages>>
     ELSE LET msg == NewMessage(w, frame)
              to == Bound(connections, frame.receiver_id, socks[w].item_id)
          IN /\ messages' = Append(messages, msg)
             /\ IF to = {}
                  THEN /\ wire' = <<Sent(w, MessageData(msg, "sent"))>>
                       /\ UNCHANGED <<socks, connections>>
                  ELSE LET h == CHOOSE x \in to : TRUE
                       IN IF socks[h].state = "open"
                            THEN /\ wire' = <<Sent(h, MessageData(msg, "message")),
                                              Sent(w, MessageData(msg, "sent"))>>
                                 /\ UNCHANGED <<socks, connections>>
                            ELSE Raise(w, exc)
  /\ UNCHANGED shopVars

\* ------------------------------------------------------- specification
Next ==
  \/ \E u \in Buyers, i \in Items, q \in Quantities : AddToCart(u, i, q)
  \/ \E r \in Reqs, u \in Buyers : CreateOrderRead(r, u)
  \/ \E r \in Reqs, n \in OrderNumbers : CreateOrderFlush(r, n)
  \/ \E r \in Reqs : CreateOrderCommit(r)
  \/ \E r \in Reqs : Rollback(r)
  \/ \E r \in Reqs, a \in Actors, oid \in OrderIds, to \in OrderStatus :
       UpdateStatusRead(r, a, oid, to)
  \/ \E r \in Reqs : UpdateStatusCommit(r)
  \/ \E r \in Reqs, out \in Outcomes : SendStatusNotification(r, out)
  \/ \E a \in Actors, oid \in OrderIds, d \in AdminOrderUpdate :
       AdminUpdateOrder(a, oid, d)
  \/ \E a \in Actors, i \in Items, d \in ItemUpdate : UpdateItem(a, i, d)
  \/ \E a \in Actors, i \in Items : DeleteItem(a, i)
  \/ \E a \in Actors, i \in Items, d \in AdminItemUpdate : AdminUpdateItem(a, i, d)

Spec == Init /\ [][Next]_vars

\* checkout traffic only: carts are filled and checked out, the catalogue is
\* not edited and no order is touched after its creation
NextCheckout ==
  \/ \E u \in Buyers, i \in Items, q \in Quantities : AddToCart(u, i, q)
  \/ \E r \in Reqs, u \in Buyers : CreateOrderRead(r, u)
  \/ \E r \in Reqs, n \in OrderNumbers : CreateOrderFlush(r, n)
  \/ \E r \in Reqs : CreateOrderCommit(r)
  \/ \E r \in Reqs, out \in Outcomes : SendStatusNotification(r, out)
  \/ \E r \in Reqs : Rollback(r)

CheckoutSpec == Init /\ [][NextCheckout]_vars

\* carts, checkouts and update_order_status called by every kind of caller
NextStatus ==
  \/ \E u \in Buyers, i \in Items, q \in Quantities : AddToCart(u, i, q)
  \/ \E r \in Reqs, u \in Buyers : CreateOrderRead(r, u)
  \/ \E r \in Reqs, n \in OrderNumbers : CreateOrderFlush(r, n)
  \/ \E r \in Reqs : CreateOrderCommit(r)
  \/ \E r \in Reqs, out \in Outcomes : SendStatusNotification(r, out)
  \/ \E r \in Reqs : Rollback(r)
  \/ \E r \in Reqs, a \in Staff, oid \in OrderIds, to \in OrderStatus :
       UpdateStatusRead(r, a, oid, to)
  \/ \E r \in Reqs : UpdateStatusCommit(r)

StatusSpec == Init /\ [][NextStatus]_vars

\* the seller endpoint and the admin endpoint on orders, every kind of
\* caller, the orders of one buyer
NextStaff ==
  \/ \E i \in Items : AddToCart("u1", i, 1)
  \/ \E r \in Reqs : CreateOrderRead(r, "u1")
  \/ \E r \in Reqs, n \in OrderNumbers : CreateOrderFlush(r, n)
  \/ \E r \in Reqs : CreateOrderCommit(r)
  \/ \E r \in Reqs, out \in Outcomes : SendStatusNotification(r, out)
  \/ \E r \in Reqs : Rollback(r)
  \/ \E r \in Reqs, a \in Staff, oid \in OrderIds, to \in OrderStatus :
       UpdateStatusRead(r, a, oid, to)
  \/ \E r \in Reqs : UpdateStatusCommit(r)
  \/ \E a \in Staff, oid \in OrderIds, d \in AdminOrderUpdate :
       AdminUpdateOrder(a, oid, d)

StaffSpec == Init /\ [][NextStaff]_vars

\* the item endpoints, every kind of caller, existing and missing items
NextCatalog ==
  \/ \E a \in Staff, i \in ItemIds, d \in ItemUpdate : UpdateItem(a, i, d)
  \/ \E a \in Staff, i \in ItemIds : DeleteItem(a, i)
  \/ \E a \in Staff, i \in Items, d \in AdminItemUpdate : AdminUpdateItem(a, i, d)

CatalogSpec == Init /\ [][NextCatalog]_vars

\* ------------------------------------------------------------ properties
\* units of item i on the lines of order o
UnitsIn(o, i) ==
  SumSeq([k \in 1..Len(o.items) |->
            IF o.items[k].item_id = i THEN o.items[k].quantity ELSE 0])

RECURSIVE SoldIn(_, _)
SoldIn(S, i) ==
  IF S = {} THEN 0
  ELSE LET o == CHOOSE x \in S : TRUE IN UnitsIn(o, i) + SoldIn(S \ {o}, i)

\* units of item i sold by all committed orders
Sold(i) == SoldIn(orders, i)

\* C1: for any interleaving of concurrent create_order calls against one
\* item with initial stock S, the quantities of the successful orders sum
\* to at most S.
C1_StockInvariant == \A i \in Items : Sold(i) <= InitStock

\* the transition table of the specification, as pairs (from, to)
TransitionTable ==
  {<<"pending", "paid">>, <<"pending", "cancelled">>,
   <<"paid", "shipped">>, <<"paid", "cancelled">>,
   <<"shipped", "delivered">>}

\* a step in which update_order_status answered or passed its checks
C2_IsReadStep ==
  /\ ops' = ops + 1
  /\ \/ response'.detail = "illegal_transition"
     \/ \E r \in Reqs : req[r].pc = "idle" /\ req'[r].pc = "us_checked"

C2_ReadStep ==
  \A r \in Reqs, a \in {"s1", "adm"}, oid \in OrderIds, to \in OrderStatus :
     (UpdateStatusRead(r, a, oid, to) /\ \E o \in orders : o.id = oid) =>
        IF <<OrderById(oid).status, to>> \in TransitionTable
          THEN /\ req'[r].pc = "us_checked"
               /\ req'[r].order_id = oid
               /\ req'[r].status = to
          ELSE /\ response' = Resp(400, "illegal_transition", "-")
               /\ req'[r].pc = "idle"
               /\ orders' = orders

C2_CommitStep ==
  \A r \in Reqs :
     UpdateStatusCommit(r) =>
        /\ response' = Resp(200, "order", "-")
        /\ \E o \in orders' : o.id = req[r].order_id /\ o.status = req[r].status

\* C2: update_order_status on an order in status from with requested status
\* to fails and leaves the status unchanged when (from, to) is not in the
\* table, and otherwise succeeds and sets the status to to.
C2_TransitionGraph ==
  [][(C2_IsReadStep => C2_ReadStep) /\ C2_CommitStep]_vars

\* a legal update went through and a later illegal one was refused
C2_Witness ==
  /\ response = Resp(400, "illegal_transition", "-")
  /\ \E o \in orders : o.status = "paid"

\* C3: once an order exists, every change of its status, by whichever
\* operation, is an edge of the transition table.
C3_OnlyTableEdges ==
  [][\A o \in orders, p \in orders' :
        (o.id = p.id /\ o.status # p.status) =>
           <<o.status, p.status>> \in TransitionTable]_vars

\* sum of price_at_purchase * quantity over the lines of an order
LinesTotal(o) ==
  SumSeq([k \in 1..Len(o.items) |->
            o.items[k].price_at_purchase * o.items[k].quantity])

\* C4: every order's total_price equals the sum of its lines'
\* price_at_purchase * quantity, also after the price of an ordered item
\* has been edited.
C4_OrderTotal == \A o \in orders : o.total_price = LinesTotal(o)

\* an order one of whose items has been repriced since the purchase
C4_Witness ==
  \E o \in orders : \E k \in 1..Len(o.items) :
     /\ o.items[k].price_at_purchase # items[o.items[k].item_id].price
     /\ o.items[k].quantity > 1

\* quantity request r's cart lines ask of item i
Asked(r, i) ==
  SumSeq([k \in 1..Len(req[r].cart_items) |->
            IF req[r].cart_items[k].item_id = i
              THEN req[r].cart_items[k].quantity ELSE 0])

InCheckout(r) == req[r].pc \in {"co_checked", "co_flushed"}

\* the committed rows are exactly as before the step
C5_NonePresent == orders' = orders /\ items' = items /\ cart' = cart

\* the order row, every order line, every stock decrement and the deletion
\* of the cart lines of request r are all in the committed rows
C5_AllPresent(r) ==
  /\ \E o \in orders' :
        /\ \A p \in orders : p.id # o.id
        /\ orders' = orders \cup {o}
        /\ Len(o.items) = Len(req[r].cart_items)
        /\ \A k \in 1..Len(o.items) :
              /\ o.items[k].item_id = req[r].cart_items[k].item_id
              /\ o.items[k].quantity = req[r].cart_items[k].quantity
  /\ \A i \in Items :
        Asked(r, i) > 0 =>
           items'[i].stock_quantity = req[r].loaded[i].stock_quantity - Asked(r, i)
  /\ \A k \in 1..Len(req[r].cart_items) :
        \A c \in cart' : c.id # req[r].cart_items[k].id

\* C5: create_order is all-or-nothing.  While a checkout is in progress the
\* committed rows show nothing of it; the step that ends it either leaves
\* them untouched or adds the order, all its lines, all stock decrements and
\* the cart deletion together; no order is ever visible without its lines.
C5_AllOrNothing ==
  /\ [](\A o \in orders : o.items # <<>>)
  /\ [][\A r \in Reqs :
          /\ (req'[r] # req[r] /\ InCheckout(r)') => C5_NonePresent
          /\ (InCheckout(r) /\ ~InCheckout(r)') =>
                (C5_NonePresent \/ C5_AllPresent(r))]_vars

\* a checkout has flushed its order row and not yet committed
C5_Witness ==
  \E r \in Reqs : req[r].pc = "co_flushed" /\ writer = r /\ cart # {}

\* C6: every item's stock_quantity is >= 0 in every reachable state.
C6_StockNonNegative == \A i \in Items : items[i].stock_quantity >= 0

\* C7: when create_order succeeds the new order is PENDING, the lines of the
\* cart it converted are gone and every item of the cart has its stock
\* reduced by exactly the quantity bought.
C7_Postcondition ==
  [][\A r \in Reqs :
        CreateOrderCommit(r) =>
           /\ \E o \in orders' : o.id = req[r].order.id /\ o.status = "pending"
           /\ \A k \in 1..Len(req[r].cart_items) :
                 \A c \in cart' : c.id # req[r].cart_items[k].id
           /\ \A i \in Items :
                 Asked(r, i) > 0 =>
                    items'[i].stock_quantity = items[i].stock_quantity - Asked(r, i)]_vars

\* C8: create_order on an empty cart fails with the empty-cart error and
\* changes no order and no stock.
C8_EmptyCart ==
  [][\A u \in Buyers :
        (~\E c \in cart : c.user_id = u) =>
           \A r \in Reqs :
           CreateOrderRead(r, u) =>
              /\ response' = Resp(400, "empty_cart", "-")
              /\ req'[r].pc = "idle"
              /\ orders' = orders /\ items' = items /\ cart' = cart]_vars

\* the empty-cart error was answered while another user's cart had lines
C8_Witness == response = Resp(400, "empty_cart", "-") /\ cart # {}

\* cart lines of user u that ask more than the item's stock
C9_Short(u) ==
  {c \in cart : c.user_id = u /\ items[c.item_id].stock_quantity < c.quantity}

\* C9: if any cart line asks more than the current stock, create_order fails
\* with the insufficient-stock error naming the item of the first such
\* line, and creates no order or order line, decrements no stock and keeps
\* the cart.
C9_InsufficientStock ==
  [][\A u \in Buyers :
        C9_Short(u) # {} =>
           \A r \in Reqs :
           CreateOrderRead(r, u) =>
              /\ \E c \in C9_Short(u) :
                    /\ \A d \in C9_Short(u) : c.id <= d.id
                    /\ response' = Resp(400, "insufficient_stock", c.item_id)
              /\ req'[r].pc = "idle"
              /\ orders' = orders /\ items' = items /\ cart' = cart]_vars

\* the error names the second line of a cart whose first line is in stock
C9_Witness ==
  \E c \in cart, d \in cart :
     /\ c.user_id = d.user_id /\ c.id < d.id
     /\ items[c.item_id].stock_quantity >= c.quantity
     /\ items[d.item_id].stock_quantity < d.quantity
     /\ response = Resp(400, "insufficient_stock", d.item_id)

\* C10: create_order succeeds only if every item of the cart is active at
\* checkout time.
C10_OnlyActiveItems ==
  [][\A r \in Reqs :
        CreateOrderCommit(r) =>
           \A k \in 1..Len(req[r].cart_items) :
              req[r].loaded[req[r].cart_items[k].item_id].is_active]_vars

\* cart traffic only: add_to_cart requests running next to each other
NextCart ==
  \/ \E r \in Reqs, u \in Buyers, i \in Items, q \in Quantities :
       AddToCartRead(r, u, i, q)
  \/ \E r \in Reqs : AddToCartCommit(r)
  \/ \E r \in Reqs : Rollback(r)

CartSpec == Init /\ [][NextCart]_vars

\* the chat endpoint alone
NextChat ==
  \/ \E w \in Socks, t \in Tokens, i \in Items : WsConnect(w, t, i)
  \/ \E w \in Socks : ClientGone(w)
  \/ \E w \in Socks : WsReceiveDisconnect(w)
  \/ \E w \in Socks, f \in Frames, e \in SendErrors : WsReceive(w, f, e)

ChatSpec == Init /\ [][NextChat]_vars

\* C11: after an order is created no operation changes its order_number,
\* total_price, shipping_address, notes, user_id or its order lines; only
\* status (and updated_at) may change.
C11_OrderImmutable ==
  [][\A o \in orders, p \in orders' :
        o.id = p.id =>
           /\ p.order_number = o.order_number
           /\ p.total_price = o.total_price
           /\ p.shipping_address = o.shipping_address
           /\ p.notes = o.notes
           /\ p.user_id = o.user_id
           /\ p.items = o.items]_vars
\* C12: in every reachable state there is at most one cart line per
\* (user, item) pair, also when two add_to_cart requests of the same user
\* for the same item run concurrently.
C12_UniqueCartLine ==
  \A c \in cart, d \in cart :
     (c.user_id = d.user_id /\ c.item_id = d.item_id) => c.id = d.id
\* C13: the chat registry holds at most one connection handle per
\* (item, user) pair in every reachable state, and a successful connect for
\* a pair that is already bound leaves the new handle as the pair's binding.
C13_OneHandlePerPair ==
  /\ [](\A b \in connections, c \in connections :
           (b.item = c.item /\ b.user = c.user) => b.ws = c.ws)
  /\ [][\A w \in Socks :
          (socks[w].state = "new" /\ socks'[w].state = "open") =>
             Bound(connections', socks'[w].user_id, socks'[w].item_id) = {w}]_vars

\* a second connection of a pair holds the binding while the first is open
C13_Witness ==
  \E b \in connections, w \in Socks :
     /\ w < b.ws
     /\ socks[w].state = "open"
     /\ socks[w].user_id = b.user /\ socks[w].item_id = b.item

\* C14: every connection handle stored in the chat registry belongs to a
\* socket that is not closed.
C14_NoClosedHandle == \A b \in connections : socks[b.ws].state # "closed"

\* C15: every termination of a registered chat connection's handler leaves
\* the registry without a binding for the connection's (item, user) pair.
C15_TerminationDisconnects ==
  [][\A w \in Socks :
        (socks[w].state \in {"open", "gone"} /\ socks'[w].state = "closed") =>
           Bound(connections', socks[w].user_id, socks[w].item_id) = {}]_vars

\* a token that is missing, malformed, or names no user or an inactive one
C16_BadToken(token) ==
  \/ token.kind \in {"missing", "malformed"}
  \/ token.sub \notin ChatUsers
  \/ token.sub \in Inactive

\* C16: a connect with a missing or malformed token, or with the token of a
\* non-existent or inactive user, is closed with a code other than 1000, is
\* not registered and is sent no history.
C16_BadTokenRejected ==
  [][frames' = frames + 1 =>
       \A w \in Socks, token \in Tokens, i \in Items :
          (C16_BadToken(token) /\ WsConnect(w, token, i)) =>
             /\ socks'[w].state = "closed"
             /\ socks'[w].close_code \notin {0, 1000}
             /\ connections' = connections
             /\ wire' = <<>>]_vars

\* the persisted messages of channel i, in the order they were persisted
C17_Channel(i) == SelectSeq(messages, LAMBDA m : m.item_id = i)

\* the last min(N, HistoryLimit) messages of channel i, oldest first
C17_Recent(i) ==
  LET ch == C17_Channel(i)
      n == Len(ch)
      k == IF n < HistoryLimit THEN n ELSE HistoryLimit
  IN [j \in 1..k |-> Wire(ch[n - k + j])]

\* C17: a successful connect to a channel with N persisted messages is sent
\* one history payload holding exactly the min(N, HistoryLimit) most recent
\* messages of the channel, oldest first.
C17_History ==
  [][frames' = frames + 1 =>
       \A w \in Socks, token \in Tokens, i \in Items :
          (WsConnect(w, token, i) /\ socks'[w].state = "open") =>
             wire' = <<Sent(w, [type |-> "history", messages |-> C17_Recent(i)])>>]_vars

\* a history that left the oldest messages of its channel out
C17_Witness ==
  /\ Len(wire) = 1
  /\ wire[1].frame.type = "history"
  /\ Len(wire[1].frame.messages) = HistoryLimit
  /\ wire[1].frame.messages[1].id > 1
  /\ Len(C17_Channel(socks[wire[1].to].item_id)) > HistoryLimit

\* a payload with a text and a receiver
C18_Valid(frame) ==
  frame.json /\ frame.text \in {"hi", " hi "} /\ frame.receiver_id # "missing"

\* C18: a valid payload persists exactly one message (sender the
\* connection's user, item the channel, the given receiver and text),
\* delivers exactly one "message" to the receiver's registered connection
\* on the channel, or none if there is none, and sends exactly one "sent"
\* to the sender.
C18_Delivery ==
  [][frames' = frames + 1 =>
       \A w \in Socks, frame \in Frames, exc \in SendErrors :
          (C18_Valid(frame) /\ WsReceive(w, frame, exc)) =>
             LET msg == [id |-> Len(messages) + 1,
                         sender_id |-> socks[w].user_id,
                         receiver_id |-> frame.receiver_id,
                         item_id |-> socks[w].item_id,
                         text |-> "hi",
                         timestamp |-> Len(messages) + 1]
                 to == Bound(connections, frame.receiver_id, socks[w].item_id)
             IN /\ messages' = Append(messages, msg)
                /\ wire' = [k \in 1..Cardinality(to) |->
                              Sent(CHOOSE h \in to : TRUE,
                                   [type |-> "message"] @@ Wire(msg))]
                           \o <<Sent(w, [type |-> "sent"] @@ Wire(msg))>>]_vars

\* a payload without a text, with an empty or blank one, or without receiver
C19_Invalid(frame) ==
  frame.json /\ (frame.text \in {"missing", "", " "} \/ frame.receiver_id = "missing")

\* C19: a payload whose text is missing, empty or blank, or whose receiver
\* is missing, changes nothing and sends nothing: no message is persisted,
\* no frame goes out, the registry is unchanged and the connection stays
\* open.
C19_IgnoredPayload ==
  [][frames' = frames + 1 =>
       \A w \in Socks, frame \in Frames, exc \in SendErrors :
          (C19_Invalid(frame) /\ WsReceive(w, frame, exc)) =>
             /\ messages' = messages
             /\ connections' = connections
             /\ socks' = socks
             /\ wire' = <<>>]_vars

\* the only connection has been sent a payload and took no notice of it
C19_Witness ==
  /\ socks[1].state = "open" /\ socks[2].state = "new"
  /\ frames = 2
  /\ messages = <<>> /\ wire = <<>>

\* C20: when the delivery to the receiver's registered connection fails,
\* the sender is still sent the "sent" confirmation and its connection
\* keeps running.
C20_DeliveryFailureIsolated ==
  [][frames' = frames + 1 =>
       \A w \in Socks, frame \in Frames, exc \in SendErrors :
          (/\ C18_Valid(frame)
           /\ WsReceive(w, frame, exc)
           /\ \E h \in Bound(connections, frame.receiver_id, socks[w].item_id) :
                 socks[h].state # "open") =>
             /\ socks'[w].state = "open"
             /\ \E k \in 1..Len(wire') :
                   wire'[k].to = w /\ wire'[k].frame.type = "sent"]_vars

\* C21: the status notification runs after the operation has committed and
\* answered; whether it prints or raises, the committed orders, stock and
\* cart lines and the response already sent stay as they are, and the order
\* it was scheduled for is still there.
C21_FireAndForget ==
  [][\A r \in Reqs, out \in Outcomes :
        SendStatusNotification(r, out) =>
           /\ orders' = orders /\ items' = items /\ cart' = cart
           /\ response' = response
           /\ \E o \in orders' : o.id = req[r].order_id]_vars

\* a notification is scheduled for a status change that was committed
C21_Witness ==
  \E r \in Reqs :
     /\ req[r].pc = "bg"
     /\ \E o \in orders : o.id = req[r].order_id /\ o.status = "paid"
     /\ req[r].status = "paid"

\* C22: update_order_status changes an order's status only for an admin or
\* for a seller who owns at least one item on the order's lines.
C22_OwnerOrAdmin ==
  [][\A r \in Reqs :
        UpdateStatusCommit(r) =>
           \/ Role[req[r].user] = "admin"
           \/ /\ Role[req[r].user] = "seller"
              /\ \E o \in orders :
                    /\ o.id = req[r].order_id
                    /\ \E k \in 1..Len(o.items) :
                          Owner[o.items[k].item_id] = req[r].user]_vars

\* C23: update_order_status, refused or committed, leaves every item's
\* stock, every cart line and the lines of every order unchanged, also when
\* the new status is cancelled.
C23_StatusOnly ==
  [][\A r \in Reqs :
        /\ (\E a \in Staff, oid \in OrderIds, to \in OrderStatus :
               UpdateStatusRead(r, a, oid, to)) =>
              (items' = items /\ cart' = cart /\ orders' = orders)
        /\ UpdateStatusCommit(r) =>
              /\ items' = items
              /\ cart' = cart
              /\ {o.id : o \in orders'} = {o.id : o \in orders}
              /\ \A o \in orders, p \in orders' :
                     o.id = p.id => p.items = o.items]_vars

\* an order was cancelled and the stock it took was not given back
C23_Witness ==
  /\ response = Resp(200, "order", "-")
  /\ \E o \in orders :
        /\ o.status = "cancelled"
        /\ o.items # <<>>
        /\ \A k \in 1..Len(o.items) :
              items[o.items[k].item_id].stock_quantity < InitStock

\* the roles of UserRole
C24_Roles == {"user", "seller", "support", "admin"}

\* C24: RoleChecker returns the user it was given when the user's role is in
\* the allowed set and fails with 403 otherwise; the seller dependency lets
\* exactly seller and admin through (the handler works with that same user),
\* the admin dependency exactly admin.
C24_RoleChecker ==
  /\ [](\A u \in DOMAIN Role, allowed \in SUBSET C24_Roles :
          /\ RoleChecker(u, allowed) = (IF Role[u] \in allowed THEN u ELSE Forbidden)
          /\ (get_current_seller_user(u) = u) <=> Role[u] \in {"seller", "admin"}
          /\ (get_current_admin_user(u) = u) <=> Role[u] = "admin")
  /\ [][/\ \A r \in Reqs, a \in Staff, oid \in OrderIds, to \in OrderStatus :
            UpdateStatusRead(r, a, oid, to) =>
               IF Role[a] \in {"seller", "admin"}
                 THEN \/ req'[r].pc = "us_checked" /\ req'[r].user = a
                      \/ response'.status_code \in {400, 404}
                 ELSE /\ response' = Resp(403, "not_enough_permissions", "-")
                      /\ req' = req
        /\ \A a \in Staff, oid \in OrderIds, d \in AdminOrderUpdate :
            AdminUpdateOrder(a, oid, d) =>
               IF Role[a] = "admin"
                 THEN response'.status_code \in {200, 404}
                 ELSE /\ response' = Resp(403, "not_enough_permissions", "-")
                      /\ orders' = orders]_vars

\* a seller passed the seller dependency and a later caller was refused
C24_Witness ==
  /\ response = Resp(403, "not_enough_permissions", "-")
  /\ \E r \in Reqs : req[r].pc = "us_checked" /\ req[r].user = "s2"

\* the answer of update_item or delete_item for caller a and item id i
C25_Refused(a, i) ==
  /\ (i \in Items /\ Owner[i] # a /\ Role[a] # "admin") =>
        (response'.status_code = 403 /\ items' = items)
  /\ (i \notin Items /\ get_current_seller_user(a) = a) =>
        (response'.status_code = 404 /\ items' = items)

\* C25: update_item and delete_item by a caller who is neither the owner of
\* the item nor an admin fail with 403 and leave the item unchanged; for a
\* caller the seller dependency lets through, an item id without a row gives
\* 404; delete_item by the owner only sets is_active to false and keeps the
\* row.
C25_ItemGuards ==
  [][\A a \in Staff, i \in ItemIds :
        /\ \A d \in ItemUpdate : UpdateItem(a, i, d) => C25_Refused(a, i)
        /\ DeleteItem(a, i) =>
              /\ C25_Refused(a, i)
              /\ (i \in Items /\ Owner[i] = a) =>
                    /\ response' = Resp(204, "-", "-")
                    /\ DOMAIN items' = DOMAIN items
                    /\ items' = [items EXCEPT ![i].is_active = FALSE]]_vars

\* the owner deleted an item (the row is still there, inactive) and a seller
\* who does not own it was then refused
C25_Witness ==
  /\ response = Resp(403, "no_rights", "-")
  /\ \E i \in Items : ~items[i].is_active /\ items[i].stock_quantity = InitStock

\* C26: no two orders ever share an order_number, and a create_order whose
\* generated number is the number of an existing order fails and leaves
\* orders (with their lines), stock and cart as they were.
C26_UniqueOrderNumber ==
  /\ [](\A o \in orders, p \in orders :
          o.order_number = p.order_number => o = p)
  /\ [][\A r \in Reqs :
          (req[r].pc = "co_checked" /\ req'[r].pc # "co_checked") =>
             \A n \in OrderNumbers :
                (CreateOrderFlush(r, n) /\ \E o \in orders : o.order_number = n) =>
                   /\ orders' = orders /\ items' = items /\ cart' = cart
                   /\ response'.status_code = 500
                   /\ req'[r].pc = "idle"]_vars

\* a checkout hit the number of an existing order; the buyer's cart is
\* still there
C26_Witness ==
  /\ response = Resp(500, "integrity_error", "-")
  /\ orders # {}
  /\ cart # {}

\* C27: the WebSocket handshake accepts a token exactly when get_current_user
\* returns a user for it, whatever the token's type and the state of its user.
C27_SameTokens ==
  [][\A w \in Socks, token \in Tokens, i \in Items :
        WsConnect(w, token, i) =>
           (socks'[w].state = "open" <=> get_current_user(token) \in ChatUsers)]_vars

\* C28: a socket that is open and bound to its (item, user) pair stays
\* bound for as long as it stays open, unless a new socket connects for
\* the same pair; the close of a superseded connection does not unbind it.
C28_LatestStaysBound ==
  [][\A w \in Socks :
        (/\ socks[w].state = "open"
         /\ socks'[w].state = "open"
         /\ w \in Bound(connections, socks[w].user_id, socks[w].item_id)) =>
           \/ w \in Bound(connections', socks[w].user_id, socks[w].item_id)
           \/ \E v \in Socks \ {w} :
                 /\ socks[v].state = "new"
                 /\ socks'[v].state = "open"
                 /\ socks'[v].user_id = socks[w].user_id
                 /\ socks'[v].item_id = socks[w].item_id]_vars

\* C30: a "message" frame goes out only in the step that persists the
\* message, and only to an open socket of the message's receiver on the
\* message's channel.
C30_OnlyToReceiver ==
  [][\A k \in 1..Len(wire') :
        wire'[k].frame.type = "message" =>
           /\ Len(messages') = Len(messages) + 1
           /\ LET m == messages'[Len(messages')]
                  h == wire'[k].to
              IN /\ socks[h].state = "open"
                 /\ socks[h].user_id = m.receiver_id
                 /\ socks[h].item_id = m.item_id
                 /\ h \in Bound(connections, m.receiver_id, m.item_id)]_vars

\* a message for a user who is connected on the other channel only: the
\* sender got its echo and the receiver's socket got nothing
C30_Witness ==
  /\ Len(wire) = 1
  /\ wire[1].frame.type = "sent"
  /\ messages # <<>>
  /\ LET m == messages[Len(messages)]
     IN /\ wire[1].frame.id = m.id
        /\ m.receiver_id # m.sender_id
        /\ \E v \in Socks :
              /\ socks[v].state = "open"
              /\ socks[v].user_id = m.receiver_id
              /\ socks[v].item_id # m.item_id

\* C29: also when update_order_status requests run concurrently, every
\* status a request commits follows the order's current status by an edge
\* of the transition table (two requests that both read pending do not
\* both commit).
C29_ConcurrentPath ==
  [][\A r \in Reqs :
        UpdateStatusCommit(r) =>
           \A o \in orders :
              o.id = req[r].order_id =>
                 <<o.status, req[r].status>> \in TransitionTable]_vars
====
